---- MODULE Spec2Model ----
(***************************************************************************)
(* A model of micplot.py: chart-kind selection (pick_plottype), colour     *)
(* assignment (define_colors), the waterfall builder (plot_waterfall) and  *)
(* the dispatch of micompanyify.  The rendering engine (pandas plotting /  *)
(* matplotlib / seaborn) is external: a call to it is recorded as one      *)
(* entry of `drawn`, holding what was handed over.                         *)
(*                                                                         *)
(* Numbers are fixed point: the integer v stands for v / One, so that the  *)
(* float 1.0 is One and every sum is exact (math.isclose(x, 1) is then     *)
(* x = One, the grid being far coarser than its 1e-9 tolerance).           *)
(*                                                                         *)
(* A pandas object is a record                                             *)
(*   [type, dt, idx, cols]                                                 *)
(* type "Series" (cols = <<values>>), "DataFrame" (cols = its columns) or  *)
(* "scalar" (what squeeze() leaves of a single cell); dt: the index is a   *)
(* DatetimeIndex; idx: the index labels.  Labels are integers, TotalLabel  *)
(* being the label 'total'.                                                *)
(*                                                                         *)
(* Left to the engine and not part of the state: the label format strfmt   *)
(* (lines 196-201), the 2.5% label offset and the cosmetic cleanup after a *)
(* successful draw (lines 264-268).                                        *)
(***************************************************************************)
EXTENDS Integers, Sequences, FiniteSets, TLC

VARIABLES data, highlight, plottype, ascending, pc, kind, color, err, drawn, history

vars == <<data, highlight, plottype, ascending, pc, kind, color, err, drawn, history>>

----------------------------------------------------------------------------
(* Bounds of the model *)

\* longest series / most rows handed to define_colors, plot_waterfall, micompanyify
MaxLen == 3
\* most points of an index handed to pick_plottype (beyond the threshold of 10)
MaxPoints == 11
\* most rows and columns of a table whose cells are enumerated
MaxDim == 2
\* most calls of plot_waterfall on one series
MaxCalls == 2

(* Program constants *)

\* the float 1.0 of between(0, 1) and math.isclose(sum, 1), in fixed point
One == 2
\* len(data) < 10
TimeseriesThreshold == 10
\* the label 'total' of data.loc['total']
TotalLabel == 0

HIGHLIGHT_COLOR == "purple"
Neutral == "lightgray"
TotalColor == "gray"

\* plottype=None
None == "None"

SupportedKinds ==
  {"bar", "bar_timeseries", "line_timeseries", "waterfall", "waterfall_buildup",
   "composition_comparison", "scatter"}

----------------------------------------------------------------------------
(* Sequences *)

RECURSIVE Sum(_)
Sum(s) == IF s = <<>> THEN 0 ELSE Head(s) + Sum(Tail(s))

Repeat(x, n) == [i \in 1..n |-> x]

Reverse(s) == [i \in 1..Len(s) |-> s[Len(s) + 1 - i]]

SeqsUpTo(S, n) == UNION {[1..k -> S] : k \in 0..n}

\* the position of label l in idx (0 when absent)
PosOf(idx, l) ==
  IF \E i \in 1..Len(idx) : idx[i] = l
  THEN CHOOSE i \in 1..Len(idx) : idx[i] = l
  ELSE 0

----------------------------------------------------------------------------
(* pandas objects *)

Series(dt, idx, vals) == [type |-> "Series", dt |-> dt, idx |-> idx, cols |-> <<vals>>]

DataFrame(dt, idx, cols) == [type |-> "DataFrame", dt |-> dt, idx |-> idx, cols |-> cols]

Scalar(v) == [type |-> "scalar", dt |-> FALSE, idx |-> <<>>, cols |-> <<<<v>>>>]

\* a Series with the default labels 1..n
FreshSeries(dt, vals) == Series(dt, [i \in 1..Len(vals) |-> i], vals)

\* a DataFrame of the given columns (all of r rows) with the default labels
FreshFrame(dt, r, cols) == DataFrame(dt, [i \in 1..r |-> i], cols)

\* len(data): the number of rows
PyLen(d) == Len(d.idx)

\* data.shape[1]
NCols(d) == Len(d.cols)

\* row i of a table, across its columns
Row(d, i) == [j \in 1..NCols(d) |-> d.cols[j][i]]

\* data.squeeze(): every axis of length 1 is dropped
squeeze(d) ==
  IF d.type = "Series"
  THEN IF PyLen(d) = 1 THEN Scalar(d.cols[1][1]) ELSE d
  ELSE IF d.type = "DataFrame"
  THEN IF PyLen(d) = 1 /\ NCols(d) = 1 THEN Scalar(d.cols[1][1])
       ELSE IF NCols(d) = 1 THEN Series(d.dt, d.idx, d.cols[1])
       ELSE IF PyLen(d) = 1
            THEN Series(FALSE, [j \in 1..NCols(d) |-> j], Row(d, 1))
            ELSE d
  ELSE d

----------------------------------------------------------------------------
(* Chart-type selection *)

is_percentage_series(vals) ==
  /\ \A i \in 1..Len(vals) : 0 <= vals[i] /\ vals[i] <= One
  /\ Sum(vals) = One

\* data.apply(is_percentage_series).all()
AllColumnsPercentage(d) == \A j \in 1..NCols(d) : is_percentage_series(d.cols[j])

pick_plottype_off_by_one(d) ==
  IF d.dt
  THEN IF PyLen(d) <= TimeseriesThreshold THEN "bar_timeseries" ELSE "line_timeseries"
  ELSE IF d.type = "Series"
  THEN IF is_percentage_series(d.cols[1]) THEN "waterfall" ELSE "bar"
  ELSE IF AllColumnsPercentage(d) THEN "composition_comparison" ELSE "scatter"

\* pick_plottype on a Series or a DataFrame
pick_plottype(d) ==
  IF d.dt
  THEN IF PyLen(d) < TimeseriesThreshold THEN "bar_timeseries" ELSE "line_timeseries"
  ELSE IF d.type = "Series"
  THEN IF is_percentage_series(d.cols[1]) THEN "waterfall" ELSE "bar"
  ELSE IF AllColumnsPercentage(d) THEN "composition_comparison" ELSE "scatter"

\* pick_plottype reads data.index first: a scalar has none
PickRaises(d) == d.type = "scalar"

----------------------------------------------------------------------------
(* Inputs *)

\* cell values: -1/One .. (One+1)/One, so below 0, inside [0,1] and above 1
Values == -1..(One + 1)

\* cell values of enumerated tables
FrameValues == 0..One

ShortSeries == {FreshSeries(dt, v) : dt \in BOOLEAN, v \in SeqsUpTo(Values, MaxLen)}

\* series of up to MaxPoints equal values
LongSeries == {FreshSeries(dt, Repeat(v, n)) : dt \in BOOLEAN, v \in {0, 1, One}, n \in 0..MaxPoints}

FramesOf(r, c) == {FreshFrame(dt, r, cols) : dt \in BOOLEAN, cols \in [1..c -> [1..r -> FrameValues]]}

\* tables of up to MaxPoints rows of equal values
LongFrames ==
  {FreshFrame(dt, n, Repeat(Repeat(v, n), c)) :
     dt \in BOOLEAN, v \in {0, 1, One}, n \in (MaxDim + 1)..MaxPoints, c \in 1..(MaxDim + 1)}

NoHighlight == [single |-> TRUE, idx |-> <<>>]

----------------------------------------------------------------------------
(* pick_plottype called on its own *)

\* every short series, every small table, and long series and tables
InitPick ==
  /\ \/ data \in ShortSeries \cup LongSeries \cup LongFrames
     \/ \E r \in 1..MaxDim, c \in 1..MaxDim : data \in FramesOf(r, c)
  /\ highlight = NoHighlight
  /\ plottype = None
  /\ ascending = "None"
  /\ pc = "start"
  /\ kind = None
  /\ color = <<>>
  /\ err = ""
  /\ drawn = <<>>
  /\ history = <<>>

PickPlottype ==
  /\ pc = "start"
  /\ kind' = pick_plottype(data)
  /\ pc' = "picked"
  /\ UNCHANGED <<data, highlight, plottype, ascending, color, err, drawn, history>>

NextPick == PickPlottype

SpecPick == InitPick /\ [][NextPick]_vars

\* C1: pick_plottype applies its rules in order: a time index gives
\* bar_timeseries below 10 points and line_timeseries from 10 on, whatever the
\* shape or values; otherwise a series gives waterfall exactly when its values
\* lie in [0,1] and sum to 1, and bar otherwise; otherwise a table gives
\* composition_comparison exactly when every column passes that test, and
\* scatter otherwise.
C1_PickRules ==
  pc = "picked" =>
    /\ data.dt /\ PyLen(data) < TimeseriesThreshold => kind = "bar_timeseries"
    /\ data.dt /\ PyLen(data) >= TimeseriesThreshold => kind = "line_timeseries"
    /\ ~data.dt /\ data.type = "Series" =>
         /\ kind \in {"waterfall", "bar"}
         /\ kind = "waterfall" <=>
              /\ \A i \in 1..PyLen(data) : data.cols[1][i] \in 0..One
              /\ Sum(data.cols[1]) = One
    /\ ~data.dt /\ data.type = "DataFrame" =>
         /\ kind \in {"composition_comparison", "scatter"}
         /\ kind = "composition_comparison" <=>
              \A j \in 1..NCols(data) :
                /\ \A i \in 1..PyLen(data) : data.cols[j][i] \in 0..One
                /\ Sum(data.cols[j]) = One

\* a table of exactly 10 time points with out-of-range values is a line chart
C1_Witness ==
  /\ pc = "picked"
  /\ data.dt
  /\ data.type = "DataFrame"
  /\ PyLen(data) = TimeseriesThreshold
  /\ NCols(data) > 1
  /\ kind = "line_timeseries"

----------------------------------------------------------------------------
(* Colour assignment *)

\* Python's list index: where color[h] lands in a list of n (1-based), and
\* whether it lands at all (otherwise IndexError)
PyIndex(n, h) == IF h >= 0 THEN h + 1 ELSE n + h + 1

PyIndexValid(n, h) == -n <= h /\ h <= n - 1

\* the length of the colour list: len(data), or data.shape[1]
ColorLen(d, k) == IF d.type = "Series" \/ k = "scatter" THEN PyLen(d) ELSE NCols(d)

\* the loop's own normalisation of a negative index
LoopIndex(d, h) == IF h < 0 THEN PyLen(d) + h ELSE h

Painted(n, positions) ==
  [i \in 1..n |-> IF i \in positions THEN HIGHLIGHT_COLOR ELSE Neutral]

\* highlight is [single |-> TRUE, idx |-> <<h>>] for an integer h and
\* [single |-> FALSE, idx |-> <<h1, ..>>] for a list
define_colors_int_through_loop(h, d, k) ==
  IF d.type = "scalar"
  THEN [color |-> <<>>, err |-> "TypeError"]
  ELSE LET n == ColorLen(d, k)
           at == [i \in 1..Len(h.idx) |-> LoopIndex(d, h.idx[i])]
       IN  IF \A i \in 1..Len(at) : PyIndexValid(n, at[i])
           THEN [color |-> Painted(n, {PyIndex(n, at[i]) : i \in 1..Len(at)}), err |-> ""]
           ELSE [color |-> <<>>, err |-> "IndexError"]

define_colors(h, d, k) ==
  IF d.type = "scalar"
  THEN [color |-> <<>>, err |-> "TypeError"]
  ELSE LET n == ColorLen(d, k)
           at == IF h.single
                 THEN h.idx
                 ELSE [i \in 1..Len(h.idx) |-> LoopIndex(d, h.idx[i])]
       IN  IF \A i \in 1..Len(at) : PyIndexValid(n, at[i])
           THEN [color |-> Painted(n, {PyIndex(n, at[i]) : i \in 1..Len(at)}), err |-> ""]
           ELSE [color |-> <<>>, err |-> "IndexError"]

\* highlight indices tried: from twice the longest length below zero to past the end
HighlightIndices == (0 - 2 * MaxLen)..MaxLen

Highlights ==
  {[single |-> TRUE, idx |-> <<h>>] : h \in HighlightIndices}
  \cup {[single |-> FALSE, idx |-> l] : l \in [1..1 -> HighlightIndices] \cup [1..2 -> HighlightIndices]}

RequestedKinds == SupportedKinds \cup {"piechart", "histogram"}

\* define_colors reads the shape only
ColorInputs ==
  {FreshSeries(FALSE, Repeat(0, n)) : n \in 0..MaxLen}
  \cup {FreshFrame(FALSE, r, Repeat(Repeat(0, r), c)) : r \in 1..MaxLen, c \in 1..MaxLen}

InitColors ==
  /\ data \in ColorInputs
  /\ highlight \in Highlights
  /\ plottype \in RequestedKinds
  /\ ascending = "None"
  /\ pc = "start"
  /\ kind = None
  /\ color = <<>>
  /\ err = ""
  /\ drawn = <<>>
  /\ history = <<>>

DefineColors ==
  /\ pc = "start"
  /\ LET r == define_colors(highlight, data, plottype)
     IN  /\ color' = r.color
         /\ err' = r.err
  /\ pc' = "colored"
  /\ UNCHANGED <<data, highlight, plottype, ascending, kind, drawn, history>>

NextColors == DefineColors

SpecColors == InitColors /\ [][NextColors]_vars

\* the number of plotted items: categories of a series, columns of a table,
\* rows when scatter treats the input as one group
PlottedItems == ColorLen(data, plottype)

LastOnlyHighlighted ==
  /\ err = ""
  /\ Len(color) = PlottedItems
  /\ \A i \in 1..Len(color) :
       color[i] = (IF i = PlottedItems THEN HIGHLIGHT_COLOR ELSE Neutral)
  /\ \E i \in 1..Len(color) : color[i] = HIGHLIGHT_COLOR

DefaultHighlight == [single |-> TRUE, idx |-> <<-1>>]

C5_OutOfRangeRaises ==
  pc = "colored" /\ data.type # "scalar" =>
    ((\E i \in 1..Len(highlight.idx) :
        ~PyIndexValid(PlottedItems, highlight.idx[i])) => err # "")

\* C6: a negative integer h and the list [h] give the same colours, or both
\* raise, for every input and kind.
C6_IntAndListAgree ==
  pc = "colored" /\ highlight.single /\ highlight.idx[1] < 0 =>
    LET l == define_colors([single |-> FALSE, idx |-> highlight.idx], data, plottype)
    IN  \/ err = "" /\ l.err = "" /\ color = l.color
        \/ err # "" /\ l.err # ""

----------------------------------------------------------------------------
(* The waterfall builder *)

\* data.cumsum().shift(1).fillna(0)
CumOffsets(vals) == [i \in 1..Len(vals) |-> Sum(SubSeq(vals, 1, i - 1))]

\* obj.loc[label] = v on an indexed sequence: the entry of that label is
\* overwritten where the label exists, and appended where it does not
SetLoc(idx, vals, label, v) ==
  IF \E i \in 1..Len(idx) : idx[i] = label
  THEN [idx |-> idx, vals |-> [i \in 1..Len(idx) |-> IF idx[i] = label THEN v ELSE vals[i]]]
  ELSE [idx |-> Append(idx, label), vals |-> Append(vals, v)]

\* one call to the engine: the primitive, the index and columns drawn, the
\* left offsets of stacked bars and the colours
Draw(prim, idx, cols, left, colors) ==
  [prim |-> prim, idx |-> idx, cols |-> cols, left |-> left, color |-> colors]

ColorNone == [given |-> FALSE, list |-> <<>>]

ColorList(l) == [given |-> TRUE, list |-> l]

\* plot_waterfall(data, color, buildup) on a Series d.  caller: the object the
\* caller passed, after the call (data.loc['total'] = total writes into it);
\* data, blank: the returned series; color: the list handed to the engine
plot_waterfall(d, c, buildup) ==
  LET color0 == IF c.given THEN c.list ELSE Repeat(Neutral, PyLen(d))
      blank0 == CumOffsets(d.cols[1])
      total  == Sum(d.cols[1])
      data1  == SetLoc(d.idx, d.cols[1], TotalLabel, total)
      blank1 == SetLoc(d.idx, blank0, TotalLabel, 0)
      color1 == color0 \o <<TotalColor>>
      dataR  == IF buildup
                THEN [idx |-> Reverse(data1.idx), vals |-> Reverse(data1.vals)]
                ELSE data1
      blankR == IF buildup THEN Reverse(blank1.vals) ELSE blank1.vals
      colorR == IF buildup THEN Reverse(color1) ELSE color1
  IN  [caller |-> Series(d.dt, data1.idx, data1.vals),
       data   |-> dataR,
       blank  |-> blankR,
       color  |-> colorR,
       draw   |-> Draw("barh", dataR.idx, <<dataR.vals>>, blankR, colorR)]

WaterfallInputs == {FreshSeries(FALSE, v) : v \in SeqsUpTo(Values, MaxLen)}

InitWaterfall ==
  /\ data \in WaterfallInputs
  /\ highlight = NoHighlight
  /\ plottype = None
  /\ ascending = "None"
  /\ pc = "start"
  /\ kind = None
  /\ color = <<>>
  /\ err = ""
  /\ drawn = <<>>
  /\ history = <<>>

\* the caller calls plot_waterfall on the series it holds
PlotWaterfall(c, buildup) ==
  /\ Len(history) < MaxCalls
  /\ LET r == plot_waterfall(data, c, buildup)
     IN  /\ data' = r.caller
         /\ color' = r.color
         /\ drawn' = Append(drawn, r.draw)
         /\ history' = Append(history,
              [buildup |-> buildup, given |-> c.given,
               input |-> [idx |-> data.idx, vals |-> data.cols[1]],
               data |-> r.data, blank |-> r.blank, color |-> r.color])
  /\ pc' = "plotted"
  /\ UNCHANGED <<highlight, plottype, ascending, kind, err>>

PlotWaterfallDefaultColor == \E b \in BOOLEAN : PlotWaterfall(ColorNone, b)

\* color=define_colors(0, data, 'waterfall'), computed by the caller for the call
PlotWaterfallGivenColor ==
  \E b \in BOOLEAN :
    LET c == define_colors([single |-> TRUE, idx |-> <<0>>], data, "waterfall")
    IN  /\ c.err = ""
        /\ PlotWaterfall(ColorList(c.color), b)

NextWaterfall == PlotWaterfallDefaultColor \/ PlotWaterfallGivenColor

SpecWaterfall == InitWaterfall /\ [][NextWaterfall]_vars

\* what C7 says of one call e on an input of n values
WaterfallContract(e) ==
  LET n == Len(e.input.vals)
      t == PosOf(e.data.idx, TotalLabel)
  IN  /\ Len(e.data.vals) = n + 1
      /\ Len(e.blank) = n + 1
      /\ Len(e.color) = n + 1
      /\ \A i \in 1..n :
           LET p == PosOf(e.data.idx, e.input.idx[i])
           IN  /\ p # 0
               /\ e.data.vals[p] = e.input.vals[i]
               /\ e.blank[p] = Sum(SubSeq(e.input.vals, 1, i - 1))
      /\ t # 0
      /\ PosOf(e.input.idx, TotalLabel) = 0
      /\ e.data.vals[t] = Sum(e.input.vals)
      /\ e.blank[t] = 0
      /\ e.color[t] = "gray"

\* C7: plot_waterfall on any series of n values returns offsets[i] = the sum
\* of the first i values for each original category, and a table and a colour
\* sequence of n+1 entries, the extra one a newly appended total category
\* whose value is the sum of the n values, whose offset is 0 and whose colour
\* is gray.
C7_WaterfallContract ==
  \A k \in 1..Len(history) : WaterfallContract(history[k])

\* the same of a series that carries no 'total' label yet (the first call on a
\* fresh series): there the builder does what C7 says
WaterfallContractOnFreshSeries ==
  \A k \in 1..Len(history) :
    PosOf(history[k].input.idx, TotalLabel) = 0 => WaterfallContract(history[k])

WaterfallFreshWitness ==
  /\ Len(history) = 1
  /\ history[1].input.vals = <<2, -1, 1>>
  /\ history[1].blank = <<0, 2, 1, 0>>
  /\ history[1].data.vals = <<2, -1, 1, 2>>

\* C8: build-down and build-up of the same series are exact reverses of each
\* other (categories, offsets and colours reversed together, the total row at
\* the opposite end), also when produced one after the other from the same
\* series.
C8_BuildupIsReverse ==
  \A i, j \in 1..Len(history) :
    /\ ~history[i].buildup
    /\ history[j].buildup
    /\ history[i].given = history[j].given
    => /\ history[j].data.idx = Reverse(history[i].data.idx)
       /\ history[j].data.vals = Reverse(history[i].data.vals)
       /\ history[j].blank = Reverse(history[i].blank)
       /\ history[j].color = Reverse(history[i].color)

----------------------------------------------------------------------------
(* micompanyify *)

\* plot_values_above_bar(data, display_values, textcolor=...): one ax.text per
\* entry, recorded as one overlay
Overlay(idx, positions, display_values, textcolor) ==
  Draw("text", idx, <<display_values>>, positions, <<textcolor>>)

\* the permutations of 1..n
Perms(n) == {p \in [1..n -> 1..n] : \A i, j \in 1..n : p[i] = p[j] => i = j}

\* data.sort_values(ascending=asc): the series in every order that is sorted
\* (the default sort kind leaves the order of equal values open)
sort_values(d, asc) ==
  LET v == d.cols[1]
      InOrder(a, b) == IF asc = "True" THEN a <= b ELSE a >= b
  IN  {Series(d.dt, [i \in 1..Len(v) |-> d.idx[p[i]]], [i \in 1..Len(v) |-> v[p[i]]]) :
         p \in {q \in Perms(Len(v)) :
                  \A i \in 1..(Len(v) - 1) : InOrder(v[q[i]], v[q[i + 1]])}}

\* lines 205-210: sorting is switched off for these kinds and for tables
SortOutcomes(d, k, asc) ==
  IF \/ k \in {"scatter", "piechart", "composition_comparison", "bar_timeseries",
              "line_timeseries"}
     \/ d.type # "Series"
     \/ asc = "None"
  THEN {d}
  ELSE sort_values(d, asc)

Ok(draws) == [err |-> "", drawn |-> draws]

Raised(e, draws) == [err |-> e, drawn |-> draws]

\* the bar and its labels, of a series or of each column of a table
BarAndLabels(prim, d, colors) ==
  <<Draw(prim, d.idx, d.cols, <<>>, colors)>>
  \o [j \in 1..NCols(d) |-> Overlay(d.idx, d.cols[j], d.cols[j], "black")]

WaterfallAndLabels(d, colors, buildup) ==
  LET w == plot_waterfall(d, ColorList(colors), buildup)
  IN  <<w.draw,
        Overlay(w.data.idx,
                [i \in 1..Len(w.blank) |-> w.data.vals[i] + w.blank[i]],
                w.data.vals, "black")>>

\* lines 249-258: the stacked bars are drawn, then the highlight is checked
\* and the highlighted row is labelled (iloc[highlight, :])
CompositionComparison(d, colors, h) ==
  LET bars == <<Draw("barh", d.idx, d.cols, <<>>, colors)>>
  IN  IF ~h.single THEN Raised("TypeError", bars)
      ELSE IF d.type = "Series" THEN Raised("IndexingError", bars)
      ELSE IF ~PyIndexValid(PyLen(d), h.idx[1]) THEN Raised("IndexError", bars)
      ELSE LET r == Row(d, PyIndex(PyLen(d), h.idx[1]))
           IN  Ok(bars \o <<Overlay([j \in 1..NCols(d) |-> j], r, r, "white")>>)

\* lines 241-248: data.iloc[:, 0] needs a table
Scatter(d) ==
  IF d.type = "Series" THEN Raised("IndexingError", <<>>)
  ELSE Ok(<<Draw("scatter", d.idx, d.cols, <<>>, <<"grey">>)>>)

Rejected_as_piechart(k) == Raised("TypeError", <<>>)

\* lines 260-263: the kinds that are not drawn
Rejected(k) ==
  IF k = "piechart"
  THEN Raised("TypeError", <<>>)
  ELSE Raised("NotImplementedError", <<>>)

\* lines 212-263 on the squeezed, coloured and sorted data
Dispatch(d, k, colors, h) ==
  CASE k = "bar" -> Ok(BarAndLabels("barh", d, colors))
    [] k = "waterfall" -> Ok(WaterfallAndLabels(d, colors, FALSE))
    [] k = "waterfall_buildup" -> Ok(WaterfallAndLabels(d, colors, TRUE))
    [] k = "bar_timeseries" -> Ok(BarAndLabels("bar", d, colors))
    [] k = "line_timeseries" -> Ok(<<Draw("line", d.idx, d.cols, <<>>, colors)>>)
    [] k = "scatter" -> Scatter(d)
    [] k = "composition_comparison" -> CompositionComparison(d, colors, h)
    [] OTHER -> Rejected(k)

\* cell values of the series and tables handed to micompanyify
MicValues == 0..One

MicSeries == {FreshSeries(dt, v) : dt \in BOOLEAN, v \in SeqsUpTo(MicValues, MaxLen)}

\* the columns of the tables handed to micompanyify: one that passes
\* is_percentage_series at every length, and one of equal values
MicColumns(r) == {[i \in 1..r |-> IF i = 1 THEN One ELSE 0], [i \in 1..r |-> 1]}

MicFramesOf(r, c) ==
  {FreshFrame(dt, r, cols) : dt \in BOOLEAN, cols \in [1..c -> MicColumns(r)]}

MicHighlights ==
  {[single |-> s, idx |-> <<h>>] : s \in BOOLEAN, h \in HighlightIndices}

\* A waterfall of a table is left to the engine (stacked bars with a table of
\* left offsets) and is not requested here.
Init ==
  /\ \/ data \in MicSeries
     \/ \E r \in 1..MaxDim, c \in 1..MaxDim : data \in MicFramesOf(r, c)
  /\ highlight \in MicHighlights
  /\ plottype \in {None} \cup RequestedKinds
  /\ ascending \in {"True", "False", "None"}
  /\ squeeze(data).type = "DataFrame" => plottype \notin {"waterfall", "waterfall_buildup"}
  /\ pc = "start"
  /\ kind = None
  /\ color = <<>>
  /\ err = ""
  /\ drawn = <<>>
  /\ history = <<>>

\* line 192 raises: the squeezed data is a scalar
SelectionFails ==
  /\ pc = "start"
  /\ plottype = None
  /\ PickRaises(squeeze(data))
  /\ err' = "AttributeError"
  /\ pc' = "done"
  /\ UNCHANGED <<data, highlight, plottype, ascending, kind, color, drawn, history>>

\* line 203 raises
ColoringFails ==
  /\ pc = "start"
  /\ ~(plottype = None /\ PickRaises(squeeze(data)))
  /\ LET d == squeeze(data)
         k == IF plottype = None THEN pick_plottype(d) ELSE plottype
         c == define_colors(highlight, d, k)
     IN  /\ c.err # ""
         /\ kind' = k
         /\ err' = c.err
  /\ pc' = "done"
  /\ UNCHANGED <<data, highlight, plottype, ascending, color, drawn, history>>

\* lines 205-263: sort, then dispatch on the kind
SortAndDispatch ==
  /\ pc = "start"
  /\ ~(plottype = None /\ PickRaises(squeeze(data)))
  /\ LET d == squeeze(data)
         k == IF plottype = None THEN pick_plottype(d) ELSE plottype
         c == define_colors(highlight, d, k)
     IN  /\ c.err = ""
         /\ \E s \in SortOutcomes(d, k, ascending) :
              LET r == Dispatch(s, k, c.color, highlight)
              IN  /\ kind' = k
                  /\ color' = c.color
                  /\ err' = r.err
                  /\ drawn' = r.drawn
  /\ pc' = "done"
  /\ UNCHANGED <<data, highlight, plottype, ascending, history>>

Next == SelectionFails \/ ColoringFails \/ SortAndDispatch

Spec == Init /\ [][Next]_vars

\* C2: with plottype unset, selection yields exactly one kind of the closed
\* set for every input micompanyify accepts (any shape, including one row, one
\* column or a single cell) and never fails.
C2_SelectionTotal ==
  pc = "done" /\ plottype = None =>
    /\ kind \in SupportedKinds
    /\ err # "AttributeError"

\* every highlight index lies within the colour sequence (-len..len-1), so
\* that colour assignment is not in question
HighlightResolves ==
  \A i \in 1..Len(highlight.idx) :
    PyIndexValid(ColorLen(squeeze(data), kind), highlight.idx[i])

\* the values of a series differ pairwise: its sorted order is then unique
DistinctValues(d) ==
  \A i, j \in 1..PyLen(d) : d.cols[1][i] = d.cols[1][j] => i = j

\* C4: when micompanyify sorts a single series, the colours handed to the
\* engine are the pre-sort colours permuted like the categories: each category
\* is drawn in the colour it had before the sort.  (Stated of series without
\* equal values, whose sorted order does not depend on the sort kind, and of
\* highlights within range.)
C4_ColorsFollowCategories ==
  /\ pc = "done"
  /\ err = ""
  /\ HighlightResolves
  /\ squeeze(data).type = "Series"
  /\ DistinctValues(squeeze(data))
  /\ kind \in {"bar", "waterfall", "waterfall_buildup"}
  /\ ascending # "None"
  => LET before == squeeze(data)
         pre == define_colors(highlight, before, kind).color
         bars == drawn[1]
     IN  \A j \in 1..Len(bars.idx) :
           bars.idx[j] # TotalLabel =>
             bars.color[j] = pre[PosOf(before.idx, bars.idx[j])]

\* C9: whenever micompanyify ends in an error, nothing has been drawn before
\* the error is raised; in particular when composition_comparison is asked
\* with a collection as highlight.  (Stated of highlights within range.)
C9_NoPartialFailure ==
  pc = "done" /\ err # "" /\ HighlightResolves => drawn = <<>>

\* C10 as stated: piechart always raises and draws nothing, and any other kind
\* outside the supported set ends in a not-implemented error naming that kind.
C10_AlwaysNotImplemented ==
  pc = "done" /\ plottype \notin SupportedKinds \cup {None} =>
    /\ err # ""
    /\ drawn = <<>>
    /\ plottype # "piechart" => err = "NotImplementedError" /\ kind = plottype

\* C10 amended: piechart always raises and draws nothing; any other kind
\* outside the supported set ends in an error with nothing drawn, which is the
\* not-implemented error naming that kind when colour assignment succeeds and
\* the error of define_colors (raised first, line 203) when it does not.
C10_RejectedKinds ==
  pc = "done" /\ plottype \notin SupportedKinds \cup {None} =>
    /\ err # ""
    /\ drawn = <<>>
    /\ plottype # "piechart" =>
         LET c == define_colors(highlight, squeeze(data), plottype)
         IN  /\ kind = plottype
             /\ c.err = "" => err = "NotImplementedError"
             /\ c.err # "" => err = c.err

\* an unsupported kind requested of a sortable series with a valid highlight
C10_Witness ==
  /\ pc = "done"
  /\ plottype = "histogram"
  /\ ascending = "False"
  /\ data.type = "Series"
  /\ PyLen(data) = MaxLen
  /\ highlight = [single |-> FALSE, idx |-> <<-1>>]
  /\ err = "NotImplementedError"
  /\ drawn = <<>>

====
